---- MODULE Spec2Model ----
(***************************************************************************)
(* Model of the Polkadex matching engine (src/src/lib.rs, utils.rs,        *)
(* fees.rs): the Orderbook state, add_trading_pair, update_fee_structure   *)
(* and process_order with matching, price levels and settlement.           *)
(*                                                                         *)
(* Decimals are integers counted in "fine" units of 10^-(2*DecimalPlaces): *)
(* rounding_off truncates toward zero to a multiple of R, so the product   *)
(* of two rounded values is exact, as it is in rust_decimal's 28 digits.   *)
(***************************************************************************)
EXTENDS Integers, Sequences, FiniteSets, TLC

\* ------------------------------------------------------------------ bounds
\* Fractional digits kept by rounding_off (9 in the program, scaled down).
DecimalPlaces == 1
\* Number of process_order calls explored.
MaxOrders == 3

RECURSIVE Pow10(_)
Pow10(n) == IF n = 0 THEN 1 ELSE 10 * Pow10(n - 1)

\* One rounding unit (10^-DecimalPlaces) and the value 1.0, in fine units.
R == Pow10(DecimalPlaces)
One == R * R

\* ------------------------------------------------------- decimal arithmetic
Max(a, b) == IF a >= b THEN a ELSE b

\* Integer division truncating toward zero (Decimal keeps the sign).
TruncDiv(a, b) == IF a >= 0 THEN a \div b ELSE -((-a) \div b)

\* Mutant of rounding_off: amounts are cut to whole units.
rounding_off_to_units(a) == TruncDiv(a, One) * One

\* Order::rounding_off: round_dp_with_strategy(9, ToZero).
rounding_off(a) == TruncDiv(a, R) * R

\* Decimal::saturating_mul of two values (exact for rounded operands).
Mul(a, b) == TruncDiv(a * b, One)

\* Decimal::checked_div(..).unwrap_or_else(zero): zero on division by zero.
Div(a, b) == IF b = 0 THEN 0 ELSE TruncDiv(a * One, b)

\* ------------------------------------------------------------ identifiers
Accounts == {"A", "B"}
Pot == "pot"
AllAccounts == Accounts \cup {Pot}

BaseAsset == "BASE"
QuoteAsset == "QUOTE"
Assets == {BaseAsset, QuoteAsset}

\* TradingPair::from(quote, base)
Pair1 == [base |-> BaseAsset, quote |-> QuoteAsset]
AllPairs == {Pair1}

Sides == {"Ask", "Bid"}
NoPrice == -1

BalKeys == AllAccounts \X Assets

\* ------------------------------------------------------------ Order helpers
\* Order::available_volume(other_price)
available_volume(order, other_price) ==
    IF order.side = "Bid" /\ order.order_type = "MARKET"
    THEN IF order.qty = 0
         THEN rounding_off(order.quote_order_qty
                           - Mul(order.avg_filled_price, order.filled_quantity))
         ELSE rounding_off(Mul(order.qty - order.filled_quantity,
                               IF other_price = NoPrice THEN 0 ELSE other_price))
    ELSE IF order.side = "Bid"
    THEN rounding_off(Mul(order.qty - order.filled_quantity,
                          IF other_price = NoPrice THEN order.price ELSE other_price))
    ELSE rounding_off(order.qty - order.filled_quantity)

\* Order::update_avg_price_and_filled_qty(price, amount)
update_avg_price_and_filled_qty(order, price, amount) ==
    LET temp == Mul(order.avg_filled_price, order.filled_quantity) + Mul(amount, price)
        filled == rounding_off(order.filled_quantity + amount)
    IN [order EXCEPT !.filled_quantity = filled,
                     !.avg_filled_price = rounding_off(Div(temp, filled))]

\* Ord for Order: TRUE when a is popped before b (price, then time).
HasPriority(a, b) ==
    IF a.side = "Bid"
    THEN a.price > b.price \/ (a.price = b.price /\ a.timestamp < b.timestamp)
    ELSE a.price < b.price \/ (a.price = b.price /\ a.timestamp < b.timestamp)

\* Mutant of peek: the heap hands out its least element.
peek_least(book) == CHOOSE o \in book : \A x \in book \ {o} : HasPriority(x, o)

\* BinaryHeap::peek / pop: the greatest element of a non-empty heap.
peek(book) == CHOOSE o \in book : \A x \in book \ {o} : HasPriority(o, x)

\* ---------------------------------------------------------------- utils.rs
calculate_assets_flows_from_trade(price, side, pair, amount) ==
    LET quote_flow == rounding_off(Mul(price, amount))
    IN IF side = "Ask"
       THEN [receiving_asset |-> pair.quote, recv_amt |-> quote_flow,
             give_away_asset |-> pair.base, lost_amt |-> amount]
       ELSE [receiving_asset |-> pair.base, recv_amt |-> amount,
             give_away_asset |-> pair.quote, lost_amt |-> quote_flow]

check_unreserved_balance_for_close_limit_orders_in_trades(order, min_volume) ==
    LET amount == IF order.side = "Ask"
                  THEN order.qty - order.filled_quantity
                  ELSE Mul(order.qty - order.filled_quantity, order.price)
    IN IF (order.order_type = "LIMIT" /\ amount # 0)
          /\ (order.status = "CLOSED" \/ available_volume(order, NoPrice) < min_volume)
       THEN amount
       ELSE 0

\* Mutant of will_orders_match: any two orders match.
will_orders_match_any_price(taker, maker) == TRUE

will_orders_match(taker, maker) ==
    IF taker.order_type = "MARKET" THEN TRUE
    ELSE IF taker.side = "Ask" THEN taker.price <= maker.price
    ELSE maker.price <= taker.price

\* Mutant of execution_price: the trade is priced by the incoming order.
execution_price_of_taker(taker, maker) == taker.price

\* execute, "let price = maker.price".
execution_price(taker, maker) == maker.price

\* execute: [some, taker, maker, trade]; some = FALSE is the None return.
execute(taker, maker, qty_step_size) ==
    LET price == execution_price(taker, maker)
        in_quote == taker.side = "Bid" /\ taker.order_type = "MARKET" /\ taker.qty = 0
        none == [some |-> FALSE, taker |-> taker, maker |-> maker,
                 trade |-> [maker |-> maker, taker |-> taker, price |-> price,
                            amount |-> 0]]
        traded(taker2, maker2, amount) ==
            [some |-> TRUE, taker |-> taker2, maker |-> maker2,
             trade |-> [maker |-> maker2, taker |-> taker2,
                        price |-> price, amount |-> amount]]
        fill(wanted, maker_available_qty) ==
            LET quantity_available == IF maker_available_qty <= wanted
                                      THEN maker_available_qty ELSE wanted
                taker1 == IF maker_available_qty = wanted
                          THEN [taker EXCEPT !.status = "CLOSED"] ELSE taker
                maker1 == IF maker_available_qty <= wanted
                          THEN [maker EXCEPT !.status = "CLOSED"] ELSE maker
            IN traded(update_avg_price_and_filled_qty(taker1, price, quantity_available),
                      update_avg_price_and_filled_qty(maker1, price, quantity_available),
                      quantity_available)
        with_step(available_qty) ==
            IF available_qty = 0 THEN none
            ELSE fill(available_qty, rounding_off(maker.qty - maker.filled_quantity))
        by_price == rounding_off(Div(available_volume(taker, maker.price), price))
    IN IF in_quote
       THEN with_step(rounding_off(Mul(Div(by_price, qty_step_size), qty_step_size)))
       ELSE fill(IF taker.side = "Bid" /\ taker.order_type = "MARKET"
                 THEN taker.qty - taker.filled_quantity
                 ELSE rounding_off(rounding_off(taker.qty - taker.filled_quantity)),
                 rounding_off(maker.qty - maker.filled_quantity))

\* ---------------------------------------------------------------- fees.rs
\* AccountFee::default()
DefaultFee == [present |-> FALSE, maker_fraction |-> R, taker_fraction |-> R]

\* FeeCollector::settle_trade_fees: the receipt and the reduced recv_amt.
settle_trade_fees(fee_table, main, is_maker, recv_amt, recv_asset) ==
    LET fs == IF fee_table[main].present THEN fee_table[main] ELSE DefaultFee
        fee_fraction == IF is_maker THEN fs.maker_fraction ELSE fs.taker_fraction
        fees == rounding_off(Mul(recv_amt, fee_fraction))
    IN [receipt |-> [user |-> main, is_maker |-> is_maker,
                     asset |-> recv_asset, amt |-> fees],
        recv_amt |-> rounding_off(recv_amt - fees)]

\* Mutant of update_fee_structure: an existing entry is added to.
update_fee_structure_adds(fee_table, main, maker_fraction, taker_fraction) ==
    LET fee == [present |-> TRUE,
                maker_fraction |-> IF fee_table[main].present
                                   THEN fee_table[main].maker_fraction + maker_fraction
                                   ELSE maker_fraction,
                taker_fraction |-> taker_fraction]
    IN [fee_structure |-> [fee_table EXCEPT ![main] = fee], fee |-> fee]

\* FeeCollector::update_fee_structure: the table and the record returned.
update_fee_structure(fee_table, main, maker_fraction, taker_fraction) ==
    LET fee == [present |-> TRUE, maker_fraction |-> maker_fraction,
                taker_fraction |-> taker_fraction]
    IN [fee_structure |-> [fee_table EXCEPT ![main] = fee], fee |-> fee]


\* ------------------------------------------------------------ small maps
\* BTreeMap::insert on a map kept as a function with a growing domain.
MapPut(m, k, v) == [x \in (DOMAIN m) \cup {k} |-> IF x = k THEN v ELSE m[x]]
EmptyMap == [x \in {} |-> 0]

NoBalance == [present |-> FALSE, free |-> 0, reserved |-> 0]
Balance(f, r) == [present |-> TRUE, free |-> f, reserved |-> r]
NoBook == [present |-> FALSE, orders |-> {}]
NoConfig == [present |-> FALSE, min_volume |-> 0, qty_step_size |-> 0,
             base_asset |-> BaseAsset, quote_asset |-> QuoteAsset]

\* OrderExecutionResult::new(stid)
NewResult(stid) ==
    [balances |-> EmptyMap, pricelevels |-> EmptyMap, modified_orders |-> EmptyMap,
     trades |-> <<>>, stid |-> stid]

\* Writes a balance entry and publishes it in changes.balances.
PutBalance(s, k, v) ==
    [s EXCEPT !.balances[k] = v, !.changes.balances = MapPut(@, k, v)]

\* ------------------------------------------------------------------ lib.rs
\* Mutant of will_match: a Limit order is never matched before it rests.
will_match_market_only(s, order) == order.order_type = "MARKET"

will_match(s, order) ==
    IF order.order_type = "MARKET" THEN TRUE
    ELSE LET book == IF order.side = "Ask" THEN s.bid_books[order.pair]
                     ELSE s.ask_books[order.pair]
         IN IF book.present /\ book.orders # {}
            THEN LET open_order == peek(book.orders)
                 IN IF order.side = "Ask" THEN order.price <= open_order.price
                    ELSE order.price >= open_order.price
            ELSE FALSE

\* The while loop of match_side over the opposite book.
RECURSIVE match_loop(_, _, _, _)
match_loop(book, taker, trades, config) ==
    IF book = {} THEN [book |-> book, taker |-> taker, trades |-> trades]
    ELSE
      LET other == peek(book)
          executed(ex, rest) ==
             LET trade == IF available_volume(ex.trade.maker, ex.maker.price)
                               < config.min_volume
                          THEN [ex.trade EXCEPT !.maker.status = "CLOSED"]
                          ELSE ex.trade
                 book2 == IF ~(available_volume(ex.maker, NoPrice) < config.min_volume)
                          THEN rest \cup {ex.maker} ELSE rest
             IN IF ex.some
                THEN match_loop(book2, ex.taker, Append(trades, trade), config)
                ELSE [book |-> book, taker |-> taker, trades |-> trades]
      IN IF available_volume(taker, other.price) < config.min_volume
         THEN [book |-> book, taker |-> [taker EXCEPT !.status = "CLOSED"],
               trades |-> trades]
         ELSE IF ~will_orders_match(taker, other)
         THEN [book |-> book, taker |-> taker, trades |-> trades]
         ELSE executed(execute(taker, other, config.qty_step_size), book \ {other})

\* match_side: [s, taker]; the trades are appended to changes.trades.
match_side(s, taker, config) ==
    LET book == IF taker.side = "Ask" THEN s.bid_books[taker.pair]
                ELSE s.ask_books[taker.pair]
        matched(m) ==
           [s |-> [(IF ~book.present THEN s
                    ELSE IF taker.side = "Ask"
                    THEN [s EXCEPT !.bid_books[taker.pair].orders = m.book]
                    ELSE [s EXCEPT !.ask_books[taker.pair].orders = m.book])
                   EXCEPT !.changes.trades = @ \o m.trades],
            taker |-> m.taker]
    IN matched(match_loop(book.orders, taker, <<>>, config))

match_limit(s, taker, config) ==
    LET closing(m) == IF available_volume(m.taker, NoPrice) < config.min_volume
                      THEN [m EXCEPT !.taker.status = "CLOSED"]
                      ELSE m
    IN closing(match_side(s, taker, config))

change_status_of_order_in_trade(trade_changes) ==
    IF Len(trade_changes) = 0 THEN trade_changes
    ELSE [trade_changes EXCEPT ![Len(trade_changes)].taker.status = "CLOSED"]

\* Mutant of match_market: the taker is not closed after matching.
match_market_keeps_status(s, taker, config) == match_side(s, taker, config)

match_market(s, taker, config) ==
    LET closing(m) ==
           [s |-> [m.s EXCEPT !.changes.trades = change_status_of_order_in_trade(@)],
            taker |-> [m.taker EXCEPT !.status = "CLOSED"]]
    IN closing(match_side(s, taker, config))

match_order(s, config, taker) ==
    IF taker.order_type = "LIMIT" THEN match_limit(s, taker, config)
    ELSE match_market(s, taker, config)

\* Mutant of insert_order: the order is put in the books of every pair.
insert_order_every_pair(s, order) ==
    LET book == IF order.side = "Ask" THEN s.ask_books[order.pair]
                ELSE s.bid_books[order.pair]
    IN IF ~book.present THEN [ok |-> FALSE, s |-> s]
       ELSE [ok |-> TRUE,
             s |-> IF order.side = "Ask"
                   THEN [s EXCEPT !.ask_books =
                           [p \in DOMAIN @ |-> [@[p] EXCEPT !.orders = @ \cup {order}]]]
                   ELSE [s EXCEPT !.bid_books =
                           [p \in DOMAIN @ |-> [@[p] EXCEPT !.orders = @ \cup {order}]]]]

\* insert_order: ok = FALSE is the "order book not opened" error.
insert_order(s, order) ==
    LET book == IF order.side = "Ask" THEN s.ask_books[order.pair]
                ELSE s.bid_books[order.pair]
    IN IF ~book.present THEN [ok |-> FALSE, s |-> s]
       ELSE [ok |-> TRUE,
             s |-> IF order.side = "Ask"
                   THEN [s EXCEPT !.ask_books[order.pair].orders = @ \cup {order}]
                   ELSE [s EXCEPT !.bid_books[order.pair].orders = @ \cup {order}]]

\* The loop of settle_order_updates over changes.trades.
RECURSIVE makers_to_modified(_, _, _, _)
makers_to_modified(mo, trades, i, stid) ==
    IF i > Len(trades) THEN mo
    ELSE makers_to_modified(
           MapPut(mo, trades[i].maker.id, [trades[i].maker EXCEPT !.stid = stid]),
           trades, i + 1, stid)

\* Mutant of settle_order_updates: the order is inserted whatever its status.
settle_order_updates_any_status(s, order) ==
    LET record(ins) ==
           IF ~ins.ok THEN ins
           ELSE [ok |-> TRUE,
                 s |-> [ins.s EXCEPT !.changes.modified_orders =
                          makers_to_modified(MapPut(@, order.id, order),
                                             ins.s.changes.trades, 1,
                                             ins.s.changes.stid)]]
    IN record(insert_order(s, order))

settle_order_updates(s, order) ==
    LET record(ins) ==
           IF ~ins.ok THEN ins
           ELSE [ok |-> TRUE,
                 s |-> [ins.s EXCEPT !.changes.modified_orders =
                          makers_to_modified(MapPut(@, order.id, order),
                                             ins.s.changes.trades, 1,
                                             ins.s.changes.stid)]]
    IN record(IF order.status = "OPEN" THEN insert_order(s, order)
              ELSE [ok |-> TRUE, s |-> s])

\* Mutant of store_pricelevel: a level pruned for its volume stays in the map.
store_pricelevel_keeps_pruned(s, config, k, q0) ==
    LET vol == Mul(k[3], q0)
        q == IF vol < config.min_volume THEN 0 ELSE q0
    IN [s EXCEPT !.pricelevels[k] = q0,
                 !.changes.pricelevels = MapPut(@, k, q)]

\* Shared tail of add_to_pricelevel and reduce_from_pricelevel: prune, publish.
store_pricelevel(s, config, k, q0) ==
    LET vol == Mul(k[3], q0)
        q == IF vol < config.min_volume THEN 0 ELSE q0
    IN [s EXCEPT !.pricelevels[k] = IF q = 0 THEN 0 ELSE q0,
                 !.changes.pricelevels = MapPut(@, k, q)]

add_to_pricelevel(s, config, pair, price, qty, side) ==
    LET k == <<pair, side, price>>
        cur == s.pricelevels[k]
        q0 == IF cur # 0 THEN Max(cur + qty, 0) ELSE qty
    IN store_pricelevel(s, config, k, q0)

reduce_from_pricelevel(s, config, pair, price, qty, side) ==
    LET k == <<pair, side, price>>
        cur == s.pricelevels[k]
        q0 == IF cur # 0 THEN Max(cur - qty, 0) ELSE qty
    IN store_pricelevel(s, config, k, q0)

RECURSIVE reduce_for_trades(_, _, _)
reduce_for_trades(s, config, i) ==
    IF i > Len(s.changes.trades) THEN s
    ELSE LET trade == s.changes.trades[i]
         IN reduce_for_trades(
              reduce_from_pricelevel(s, config, trade.maker.pair, trade.price,
                                     trade.amount, trade.maker.side),
              config, i + 1)

settle_price_level_updates(s, config, order) ==
    LET unfilled == Max(order.qty - order.filled_quantity, 0)
        s1 == IF order.status = "OPEN"
              THEN add_to_pricelevel(s, config, order.pair, order.price, unfilled,
                                     order.side)
              ELSE s
    IN reduce_for_trades(s1, config, 1)


\* Mutant of fee_patch_loop: the popped orders are not appended back.
RECURSIVE fee_patch_loop_no_append(_, _, _)
fee_patch_loop_no_append(book, new_book, order) ==
    IF book = {} THEN {}
    ELSE LET stored_order == peek(book)
         IN IF stored_order.id = order.id
            THEN (book \ {stored_order}) \cup {[stored_order EXCEPT !.fee = order.fee]}
            ELSE fee_patch_loop_no_append(book \ {stored_order},
                                          new_book \cup {stored_order}, order)

\* The pop / re-push loop of update_in_memory_order_state_with_fee.
RECURSIVE fee_patch_loop(_, _, _)
fee_patch_loop(book, new_book, order) ==
    IF book = {} THEN new_book
    ELSE LET stored_order == peek(book)
         IN IF stored_order.id = order.id
            THEN (book \ {stored_order}) \cup new_book
                   \cup {[stored_order EXCEPT !.fee = order.fee]}
            ELSE fee_patch_loop(book \ {stored_order}, new_book \cup {stored_order}, order)

update_in_memory_order_state_with_fee(s, order) ==
    IF order.side = "Ask"
    THEN IF s.ask_books[order.pair].present
         THEN [s EXCEPT !.ask_books[order.pair].orders = fee_patch_loop(@, {}, order)]
         ELSE s
    ELSE IF s.bid_books[order.pair].present
         THEN [s EXCEPT !.bid_books[order.pair].orders = fee_patch_loop(@, {}, order)]
         ELSE s

\* Mutant of refund_overpay: nothing is refunded.
refund_overpay_skipped(s, trade) == s

\* settle_trades, lines 371-393: the refund of an overpaying Bid taker.
refund_overpay(s, trade) ==
    LET taker == trade.taker
        k == <<taker.main_account, taker.pair.quote>>
        cur == s.balances[k]
        to_unreserve == Mul(taker.price - trade.price, trade.amount)
    IN IF taker.side = "Bid" /\ trade.price < taker.price
       THEN PutBalance(s, k,
              IF cur.present
              THEN Balance(rounding_off(cur.free + to_unreserve),
                           Max(cur.reserved - to_unreserve, 0))
              ELSE Balance(0, 0))
       ELSE s

\* settle_trades, lines 397-481: one half (maker or taker) of trade i.
settle_half(s, config, fee_table, i, is_taker_half) ==
    LET trade == s.changes.trades[i]
        order == IF is_taker_half THEN trade.taker ELSE trade.maker
        is_maker == order.main_account = trade.maker.main_account
        \* lines 459-480: the receiving asset is credited.
        receive(s5, rk, recv_amt) ==
           PutBalance(s5, rk,
             IF s5.balances[rk].present
             THEN Balance(rounding_off(s5.balances[rk].free + recv_amt),
                          s5.balances[rk].reserved)
             ELSE Balance(recv_amt, 0))
        \* lines 443-457: the give-away asset leaves reserved, dust goes to free.
        give_away(s4, gk, lost_amt, un_reserve_balance) ==
           PutBalance(s4, gk,
             IF s4.balances[gk].present
             THEN Balance(rounding_off(s4.balances[gk].free + un_reserve_balance),
                          s4.balances[gk].reserved - (lost_amt + un_reserve_balance))
             ELSE Balance(0, 0))
        \* lines 428-441: the fee goes to the pot account.
        collect(s3, pk, amt) ==
           PutBalance(s3, pk,
             IF s3.balances[pk].present
             THEN Balance(rounding_off(s3.balances[pk].free + amt),
                          s3.balances[pk].reserved)
             ELSE Balance(amt, 0))
        \* lines 422-426: the fee is recorded on the order, the delta and the book.
        patch(order1) ==
           update_in_memory_order_state_with_fee(
             [s EXCEPT !.changes.trades[i] =
                         IF is_taker_half THEN [@ EXCEPT !.taker = order1]
                         ELSE [@ EXCEPT !.maker = order1],
                       !.changes.modified_orders =
                         IF order.id \in DOMAIN @
                         THEN [@ EXCEPT ![order.id].fee = order1.fee] ELSE @],
             order1)
        settle(flow, fee, un_reserve_balance) ==
           receive(
             give_away(
               collect(patch([order EXCEPT !.fee = rounding_off(@ + fee.receipt.amt)]),
                       <<Pot, fee.receipt.asset>>, fee.receipt.amt),
               <<order.main_account, flow.give_away_asset>>, flow.lost_amt,
               un_reserve_balance),
             <<order.main_account, flow.receiving_asset>>, fee.recv_amt)
        with_flow(flow) ==
           settle(flow,
                  settle_trade_fees(fee_table, order.main_account, is_maker,
                                    flow.recv_amt, flow.receiving_asset),
                  check_unreserved_balance_for_close_limit_orders_in_trades(
                     order, config.min_volume))
    IN with_flow(calculate_assets_flows_from_trade(trade.price, order.side, order.pair,
                                                   trade.amount))

RECURSIVE settle_trades_from(_, _, _, _)
settle_trades_from(s, config, fee_table, i) ==
    IF i > Len(s.changes.trades) THEN s
    ELSE settle_trades_from(
           settle_half(settle_half(refund_overpay(s, s.changes.trades[i]),
                                   config, fee_table, i, FALSE),
                       config, fee_table, i, TRUE),
           config, fee_table, i + 1)

settle_trades(s, config, fee_table) == settle_trades_from(s, config, fee_table, 1)

unreserve_balance(s, amount, asset, main) ==
    LET k == <<main, asset>>
        cur == s.balances[k]
    IN PutBalance(s, k,
         IF cur.present
         THEN Balance(rounding_off(cur.free + amount), Max(cur.reserved - amount, 0))
         ELSE Balance(0, 0))

free_reserve_balance_of_market_order(s, order) ==
    LET unfilled_amount ==
            IF order.side = "Ask" THEN order.qty - order.filled_quantity
            ELSE order.quote_order_qty
                   - Mul(order.avg_filled_price, order.filled_quantity)
        asset == IF order.side = "Ask" THEN order.pair.base ELSE order.pair.quote
    IN IF order.order_type = "MARKET" /\ unfilled_amount # 0
       THEN unreserve_balance(s, unfilled_amount, asset, order.main_account)
       ELSE s

\* Mutant of reserve_balances: the free balance is not compared with the amount.
reserve_balances_unchecked(s, order) ==
    LET in_base == order.side = "Ask"
                   \/ (order.order_type = "MARKET" /\ order.quote_order_qty = 0)
        k == <<order.main_account,
               IF in_base THEN order.pair.base ELSE order.pair.quote>>
        cur == s.balances[k]
        reserve(amount) ==
           IF cur.present
           THEN [ok |-> TRUE,
                 s |-> PutBalance(s, k, Balance(cur.free - amount,
                                                cur.reserved + amount))]
           ELSE [ok |-> FALSE, s |-> [s EXCEPT !.balances[k] = Balance(0, 0)]]
    IN reserve(rounding_off(
         IF in_base THEN order.qty - order.filled_quantity
         ELSE IF order.order_type = "LIMIT" THEN available_volume(order, NoPrice)
         ELSE order.quote_order_qty))

\* reserve_balances: ok = FALSE is "Error while reserving assets for order".
reserve_balances(s, order) ==
    LET in_base == order.side = "Ask"
                   \/ (order.order_type = "MARKET" /\ order.quote_order_qty = 0)
        asset == IF in_base THEN order.pair.base ELSE order.pair.quote
        k == <<order.main_account, asset>>
        cur == s.balances[k]
        reserve(amount) ==
           IF cur.present /\ cur.free >= amount
           THEN [ok |-> TRUE,
                 s |-> PutBalance(s, k, Balance(cur.free - amount,
                                                cur.reserved + amount))]
           ELSE [ok |-> FALSE,
                 s |-> IF cur.present THEN s
                       ELSE [s EXCEPT !.balances[k] = Balance(0, 0)]]
    IN reserve(rounding_off(
         IF in_base THEN order.qty - order.filled_quantity
         ELSE IF order.order_type = "LIMIT" THEN available_volume(order, NoPrice)
         ELSE order.quote_order_qty))

\* process_order: [ok, err, s]; s carries the engine fields and the delta.
process_order(self, fee_table, order, stid) ==
    LET config == self.trading_pairs[order.pair]
        s0 == [pricelevels |-> self.pricelevels, bid_books |-> self.bid_books,
               ask_books |-> self.ask_books, balances |-> self.balances,
               changes |-> NewResult(stid)]
        settled(upd, taker) ==
           IF ~upd.ok
           THEN [ok |-> FALSE, err |-> "order book not opened", s |-> upd.s]
           ELSE [ok |-> TRUE, err |-> "",
                 s |-> free_reserve_balance_of_market_order(
                         settle_trades(settle_price_level_updates(upd.s, config, taker),
                                       config, fee_table),
                         taker)]
        matched(m) == settled(settle_order_updates(m.s, m.taker), m.taker)
        reserved(res) ==
           IF ~res.ok
           THEN [ok |-> FALSE, err |-> "Error while reserving assets for order",
                 s |-> res.s]
           ELSE matched(IF will_match(res.s, order)
                        THEN match_order(res.s, config, order)
                        ELSE [s |-> res.s, taker |-> order])
    IN IF ~config.present
       THEN [ok |-> FALSE, err |-> "TradingPairConfigNotFound", s |-> s0]
       ELSE reserved(reserve_balances(s0, order))


\* ------------------------------------------------------------------ inputs
\* Limit prices and base quantities the callers submit.
Prices == {One, One + R}
Qtys == {One, One + R}
\* Quote budgets of market bids given in quote.
QuoteQtys == {One + R}
\* TradingPairConfig values registered for Pair1.
Configs ==
    {[present |-> TRUE, min_volume |-> mv, qty_step_size |-> R,
      base_asset |-> BaseAsset, quote_asset |-> QuoteAsset] : mv \in {R, 2 * R}}
\* (maker_fraction, taker_fraction) pairs passed to update_fee_structure, and
\* the accounts they are set for (the others are charged DefaultFee).
FeeChoices == {<<0, 2 * R>>}
FeeAccounts == {"A"}
\* Free balance the funded accounts start with.
Funds == 5 * One

\* Keys of the price-level map: any order price, 0 (a Market order's) included.
PLKeys == AllPairs \X Sides \X (Prices \cup {0})

NoOrder ==
    [id |-> 0, main_account |-> Pot, pair |-> Pair1, side |-> "Ask",
     order_type |-> "LIMIT", price |-> 0, qty |-> 0, quote_order_qty |-> 0,
     filled_quantity |-> 0, avg_filled_price |-> 0, fee |-> 0, status |-> "OPEN",
     stid |-> 0, timestamp |-> 0]

\* A fresh order as the caller creates it: nothing filled, Open.
NewOrder(id, main, pair, side, type, price, qty, quote_order_qty) ==
    [id |-> id, main_account |-> main, pair |-> pair, side |-> side,
     order_type |-> type, price |-> price, qty |-> qty,
     quote_order_qty |-> quote_order_qty, filled_quantity |-> 0,
     avg_filled_price |-> 0, fee |-> 0, status |-> "OPEN", stid |-> id,
     timestamp |-> id]

\* Shapes of the orders submitted: Limit; Market Ask / Market Bid in base;
\* Market Bid in quote (qty = 0).
OrderShapes ==
    {[type |-> "LIMIT", side |-> sd, price |-> p, qty |-> q, qq |-> 0] :
        sd \in Sides, p \in Prices, q \in Qtys}
    \cup {[type |-> "MARKET", side |-> sd, price |-> 0, qty |-> q, qq |-> 0] :
        sd \in Sides, q \in Qtys}
    \cup {[type |-> "MARKET", side |-> "Bid", price |-> 0, qty |-> 0, qq |-> v] :
        v \in QuoteQtys}

\* ------------------------------------------------------------------- state
VARIABLES trading_pairs, pricelevels, bid_books, ask_books, balances,
          fee_structure, stid, last

vars == <<trading_pairs, pricelevels, bid_books, ask_books, balances,
          fee_structure, stid, last>>

Self ==
    [trading_pairs |-> trading_pairs, pricelevels |-> pricelevels,
     bid_books |-> bid_books, ask_books |-> ask_books, balances |-> balances]

\* The arguments of an update_fee_structure call.
NoFeeCall == [main |-> Pot, maker_fraction |-> 0, taker_fraction |-> 0]

NoCall == [op |-> "none", order |-> NoOrder, ok |-> TRUE, err |-> "",
           changes |-> NewResult(0), fee_call |-> NoFeeCall, fee |-> DefaultFee]

\* Orderbook::new(), with the balances map the embedding code fills in
\* (tests insert them; load() takes them as an argument): A holds both
\* assets, B holds the base asset only and has no quote entry, the pot none.
Init ==
    /\ trading_pairs = [p \in AllPairs |-> NoConfig]
    /\ pricelevels = [k \in PLKeys |-> 0]
    /\ bid_books = [p \in AllPairs |-> NoBook]
    /\ ask_books = [p \in AllPairs |-> NoBook]
    /\ balances = [k \in BalKeys |->
                      IF k[1] = "A" \/ k = <<"B", BaseAsset>>
                      THEN Balance(Funds, 0) ELSE NoBalance]
    /\ fee_structure = [a \in AllAccounts |-> DefaultFee]
    /\ stid = 0
    /\ last = NoCall

\* Orderbook::add_trading_pair
AddTradingPair(config) ==
    LET pair == [base |-> config.base_asset, quote |-> config.quote_asset]
    IN /\ trading_pairs' = [trading_pairs EXCEPT ![pair] = config]
       /\ bid_books' = [bid_books EXCEPT ![pair] = [present |-> TRUE, orders |-> {}]]
       /\ ask_books' = [ask_books EXCEPT ![pair] = [present |-> TRUE, orders |-> {}]]
       /\ last' = [NoCall EXCEPT !.op = "add_trading_pair"]
       /\ UNCHANGED <<pricelevels, balances, fee_structure, stid>>

\* Orderbook::update_fee_structure -> FeeCollector::update_fee_structure
UpdateFeeStructure(main, maker_fraction, taker_fraction) ==
    /\ LET r == update_fee_structure(fee_structure, main, maker_fraction,
                                     taker_fraction)
       IN /\ fee_structure' = r.fee_structure
          /\ last' = [NoCall EXCEPT !.op = "update_fee_structure",
                                    !.fee_call = [main |-> main,
                                                  maker_fraction |-> maker_fraction,
                                                  taker_fraction |-> taker_fraction],
                                    !.fee = r.fee]
    /\ UNCHANGED <<trading_pairs, pricelevels, bid_books, ask_books, balances, stid>>

\* Orderbook::process_order(order, stid)
ProcessOrder(order) ==
    /\ stid < MaxOrders
    /\ LET r == process_order(Self, fee_structure, order, stid + 1)
       IN /\ pricelevels' = r.s.pricelevels
          /\ bid_books' = r.s.bid_books
          /\ ask_books' = r.s.ask_books
          /\ balances' = r.s.balances
          /\ last' = [op |-> "process_order", order |-> order, ok |-> r.ok,
                      err |-> r.err, changes |-> r.s.changes,
                      fee_call |-> NoFeeCall, fee |-> DefaultFee]
    /\ stid' = stid + 1
    /\ UNCHANGED <<trading_pairs, fee_structure>>

Next ==
    \/ \E config \in Configs : AddTradingPair(config)
    \/ \E main \in FeeAccounts, f \in FeeChoices : UpdateFeeStructure(main, f[1], f[2])
    \/ \E main \in Accounts, pair \in AllPairs, sh \in OrderShapes :
          ProcessOrder(NewOrder(stid + 1, main, pair, sh.side, sh.type, sh.price,
                                sh.qty, sh.qq))

Spec == Init /\ [][Next]_vars

\* The same engine when every pair is registered at most once.
NextRegisterOnce ==
    \/ \E config \in Configs :
          /\ ~trading_pairs[[base |-> config.base_asset,
                             quote |-> config.quote_asset]].present
          /\ AddTradingPair(config)
    \/ \E main \in FeeAccounts, f \in FeeChoices : UpdateFeeStructure(main, f[1], f[2])
    \/ \E main \in Accounts, pair \in AllPairs, sh \in OrderShapes :
          ProcessOrder(NewOrder(stid + 1, main, pair, sh.side, sh.type, sh.price,
                                sh.qty, sh.qq))

SpecRegisterOnce == Init /\ [][NextRegisterOnce]_vars

\* The same engine when callers also submit Limit orders of quantity zero:
\* process_order validates nothing and rests them like any other order that
\* does not cross.
AnyQtyShapes ==
    {[type |-> "LIMIT", side |-> sd, price |-> One, qty |-> q, qq |-> 0] :
        sd \in Sides, q \in {0, One}}
      \cup {sh \in OrderShapes : sh.type = "MARKET"}

NextAnyQty ==
    \/ \E config \in Configs : AddTradingPair(config)
    \/ \E main \in FeeAccounts, f \in FeeChoices : UpdateFeeStructure(main, f[1], f[2])
    \/ \E main \in Accounts, pair \in AllPairs, sh \in AnyQtyShapes :
          ProcessOrder(NewOrder(stid + 1, main, pair, sh.side, sh.type, sh.price,
                                sh.qty, sh.qq))

SpecAnyQty == Init /\ [][NextAnyQty]_vars

\* The same engine on a pair whose qty_step_size is coarser than the rounding
\* unit, so that quantization to the step can be told from rounding_off.
CoarseStepConfigs ==
    {[present |-> TRUE, min_volume |-> R, qty_step_size |-> 2 * R,
      base_asset |-> BaseAsset, quote_asset |-> QuoteAsset]}

NextCoarseStep ==
    \/ \E config \in CoarseStepConfigs : AddTradingPair(config)
    \/ \E main \in FeeAccounts, f \in FeeChoices : UpdateFeeStructure(main, f[1], f[2])
    \/ \E main \in Accounts, pair \in AllPairs, sh \in OrderShapes :
          ProcessOrder(NewOrder(stid + 1, main, pair, sh.side, sh.type, sh.price,
                                sh.qty, sh.qq))

SpecCoarseStep == Init /\ [][NextCoarseStep]_vars

\* Orderbook::load: an engine built from a snapshot. The price-level map is
\* not an argument: the loaded engine starts with an empty one.
load(pairs, bids, asks, bals, fee_structures) ==
    [trading_pairs |-> pairs, pricelevels |-> [k \in PLKeys |-> 0],
     bid_books |-> bids, ask_books |-> asks, balances |-> bals,
     fee_structure |-> fee_structures]

\* The embedding code replaces the engine by load() of the engine's snapshot.
Load ==
    LET e == load(trading_pairs, bid_books, ask_books, balances, fee_structure)
    IN /\ trading_pairs' = e.trading_pairs
       /\ pricelevels' = e.pricelevels
       /\ bid_books' = e.bid_books
       /\ ask_books' = e.ask_books
       /\ balances' = e.balances
       /\ fee_structure' = e.fee_structure
       /\ last' = [NoCall EXCEPT !.op = "load"]
       /\ UNCHANGED stid

\* The orders submitted to an engine that may be rebuilt: as OrderShapes,
\* Limit orders at one price.
LoadShapes == {sh \in OrderShapes : sh.price \in {0, One}}

\* The engine when it may be rebuilt from its snapshot between two calls.
NextLoad ==
    \/ \E config \in Configs :
          /\ ~trading_pairs[[base |-> config.base_asset,
                             quote |-> config.quote_asset]].present
          /\ AddTradingPair(config)
    \/ \E main \in FeeAccounts, f \in FeeChoices : UpdateFeeStructure(main, f[1], f[2])
    \/ \E main \in Accounts, pair \in AllPairs, sh \in LoadShapes :
          ProcessOrder(NewOrder(stid + 1, main, pair, sh.side, sh.type, sh.price,
                                sh.qty, sh.qq))
    \/ Load

SpecLoad == Init /\ [][NextLoad]_vars

\* The engine when both accounts have their fee fractions set, to several
\* values, between orders that trade one quantity at one price.
FeeChoicesWide == {<<0, 2 * R>>, <<2 * R, 0>>}
FeeShapes == {sh \in OrderShapes : sh.type = "LIMIT" /\ sh.price = One /\ sh.qty = One}

NextFees ==
    \/ \E config \in Configs :
          /\ ~trading_pairs[[base |-> config.base_asset,
                             quote |-> config.quote_asset]].present
          /\ AddTradingPair(config)
    \/ \E main \in Accounts, f \in FeeChoicesWide : UpdateFeeStructure(main, f[1], f[2])
    \/ \E main \in Accounts, pair \in AllPairs, sh \in FeeShapes :
          ProcessOrder(NewOrder(stid + 1, main, pair, sh.side, sh.type, sh.price,
                                sh.qty, sh.qq))

SpecFees == Init /\ [][NextFees]_vars

\* ------------------------------------------------ the scenarios of the tests
\* tests/trade_price_test.rs: Ask Limit 10 @ 1.0 crossed by Bid Limit 20 @ 2.0,
\* every account funded with 100.
S2Funds == 100 * One
S2AskPrice == One
S2AskQty == 10 * One
S2BidPrice == 2 * One
S2BidQty == 20 * One

\* tests/precision.rs: Bid Limit 10 @ 0.6275 crossed by Ask Limit 1.8 @ 0.6275
\* from an account holding 2.41970783 of the base asset. The test's values
\* need nine decimal digits; they are kept to the digits rounding_off keeps
\* here: the price and the holding end at the last digit the engine keeps.
S3Price == 6 * (One \div 10) + R
S3BidQty == 10 * One
S3AskQty == One + 8 * (One \div 10)
S3Funds == 2 * One + 4 * (One \div 10) + R

ZeroFee == [present |-> TRUE, maker_fraction |-> 0, taker_fraction |-> 0]

ScenarioShapes ==
    {[type |-> "LIMIT", side |-> "Ask", price |-> S2AskPrice, qty |-> S2AskQty, qq |-> 0],
     [type |-> "LIMIT", side |-> "Bid", price |-> S2BidPrice, qty |-> S2BidQty, qq |-> 0],
     [type |-> "LIMIT", side |-> "Bid", price |-> S3Price, qty |-> S3BidQty, qq |-> 0],
     [type |-> "LIMIT", side |-> "Ask", price |-> S3Price, qty |-> S3AskQty, qq |-> 0]}

ScenarioPLKeys == AllPairs \X Sides \X {S2AskPrice, S2BidPrice, S3Price}

\* Spec section 8, S1 / S2: A holds 100 base, B holds 100 quote, zero fees.
\* tests/precision.rs: both accounts hold 100 of the quote asset, A 100 and B
\* S3Funds of the base asset, default fees.
InitScenario ==
    /\ trading_pairs = [p \in AllPairs |-> NoConfig]
    /\ pricelevels = [k \in ScenarioPLKeys |-> 0]
    /\ bid_books = [p \in AllPairs |-> NoBook]
    /\ ask_books = [p \in AllPairs |-> NoBook]
    /\ \/ /\ balances = [k \in BalKeys |->
                            IF k = <<"A", BaseAsset>> \/ k = <<"B", QuoteAsset>>
                            THEN Balance(S2Funds, 0) ELSE NoBalance]
          /\ fee_structure = [a \in AllAccounts |-> ZeroFee]
       \/ /\ balances = [k \in BalKeys |->
                            IF k = <<"B", BaseAsset>> THEN Balance(S3Funds, 0)
                            ELSE IF k[1] \in Accounts THEN Balance(S2Funds, 0)
                            ELSE NoBalance]
          /\ fee_structure = [a \in AllAccounts |-> DefaultFee]
    /\ stid = 0
    /\ last = NoCall

NextScenario ==
    \/ \E config \in Configs :
          /\ ~trading_pairs[[base |-> config.base_asset,
                             quote |-> config.quote_asset]].present
          /\ AddTradingPair(config)
    \/ \E main \in Accounts, pair \in AllPairs, sh \in ScenarioShapes :
          ProcessOrder(NewOrder(stid + 1, main, pair, sh.side, sh.type, sh.price,
                                sh.qty, sh.qq))

SpecScenario == InitScenario /\ [][NextScenario]_vars


\* Spec section 8, S4: three asks of 5 rest at three consecutive prices and a
\* market bid comes with a quote budget that fills the first and part of the
\* second. The step is coarser than the rounding unit, as 0.01 is for the
\* engine, and the budget leaves a quantity that is not a multiple of it.
S4Qty == 5 * One
S4Budget == 7 * One + 6 * R
S4Config ==
    [present |-> TRUE, min_volume |-> R, qty_step_size |-> 2 * R,
     base_asset |-> BaseAsset, quote_asset |-> QuoteAsset]
S4PLKeys == AllPairs \X Sides \X {0, One, One + R, One + 2 * R}

\* The asks of S4, submitted by A before the scenario starts.
S4Ask(n) == NewOrder(10 + n, "A", Pair1, "Ask", "LIMIT", One + (n - 1) * R, S4Qty, 0)

S4Shapes ==
    {[type |-> "MARKET", side |-> "Bid", price |-> 0, qty |-> 0, qq |-> S4Budget]}
      \cup {[type |-> "LIMIT", side |-> sd, price |-> One, qty |-> One, qq |-> 0] :
              sd \in Sides}

\* The engine after add_trading_pair(S4Config) and the process_order calls
\* of the three asks: they rest, their quantity is reserved from A's base
\* balance and makes up the three Ask levels.
InitS4 ==
    /\ trading_pairs = [p \in AllPairs |-> S4Config]
    /\ pricelevels = [k \in S4PLKeys |->
                        IF k[2] = "Ask" /\ k[3] # 0 THEN S4Qty ELSE 0]
    /\ bid_books = [p \in AllPairs |-> [present |-> TRUE, orders |-> {}]]
    /\ ask_books = [p \in AllPairs |->
                      [present |-> TRUE, orders |-> {S4Ask(n) : n \in 1..3}]]
    /\ balances = [k \in BalKeys |->
                     IF k = <<"A", BaseAsset>>
                     THEN Balance(S2Funds - 3 * S4Qty, 3 * S4Qty)
                     ELSE IF k[1] \in Accounts THEN Balance(S2Funds, 0)
                     ELSE NoBalance]
    /\ fee_structure = [a \in AllAccounts |-> ZeroFee]
    /\ stid = 0
    /\ last = NoCall

NextS4 ==
    \/ \E main \in FeeAccounts, f \in FeeChoices : UpdateFeeStructure(main, f[1], f[2])
    \/ \E main \in Accounts, pair \in AllPairs, sh \in S4Shapes :
          ProcessOrder(NewOrder(stid + 1, main, pair, sh.side, sh.type, sh.price,
                                sh.qty, sh.qq))

SpecS4 == InitS4 /\ [][NextS4]_vars

\* ---------------------------------------------------------------- two pairs
\* An engine serving two pairs that share the quote asset.
Base2Asset == "BASE2"
Pair2 == [base |-> Base2Asset, quote |-> QuoteAsset]
TwoPairs == {Pair1, Pair2}
TwoPairsBalKeys == AllAccounts \X (Assets \cup {Base2Asset})
TwoPairsPLKeys == TwoPairs \X Sides \X {0, One}
TwoPairsConfigs ==
    {[present |-> TRUE, min_volume |-> R, qty_step_size |-> R,
      base_asset |-> p.base, quote_asset |-> p.quote] : p \in TwoPairs}
\* Limit orders at one price, Market Asks in base, Market Bids in quote.
TwoPairsShapes ==
    {sh \in OrderShapes : sh.price \in {0, One} /\ sh.qty \in {0, One}}

\* Orderbook::new() with balances as in Init: A holds every asset, B the two
\* base assets only.
InitTwoPairs ==
    /\ trading_pairs = [p \in TwoPairs |-> NoConfig]
    /\ pricelevels = [k \in TwoPairsPLKeys |-> 0]
    /\ bid_books = [p \in TwoPairs |-> NoBook]
    /\ ask_books = [p \in TwoPairs |-> NoBook]
    /\ balances = [k \in TwoPairsBalKeys |->
                      IF k[1] = "A" \/ (k[1] = "B" /\ k[2] # QuoteAsset)
                      THEN Balance(Funds, 0) ELSE NoBalance]
    /\ fee_structure = [a \in AllAccounts |-> DefaultFee]
    /\ stid = 0
    /\ last = NoCall

NextTwoPairs ==
    \/ \E config \in TwoPairsConfigs : AddTradingPair(config)
    \/ \E main \in FeeAccounts, f \in FeeChoices : UpdateFeeStructure(main, f[1], f[2])
    \/ \E main \in Accounts, pair \in TwoPairs, sh \in TwoPairsShapes :
          ProcessOrder(NewOrder(stid + 1, main, pair, sh.side, sh.type, sh.price,
                                sh.qty, sh.qq))

SpecTwoPairs == InitTwoPairs /\ [][NextTwoPairs]_vars


\* ------------------------------------------------------- derived quantities
RECURSIVE SumOver(_, _)
\* Sum of f[x] over the finite set DOMAIN f restricted to S.
SumOver(f, S) ==
    IF S = {} THEN 0
    ELSE LET x == CHOOSE y \in S : TRUE IN f[x] + SumOver(f, S \ {x})

\* free + reserved of one asset summed over all accounts, the pot included.
TotalOf(bal, asset) ==
    SumOver([a \in AllAccounts |-> bal[<<a, asset>>].free + bal[<<a, asset>>].reserved],
            AllAccounts)

BookOf(bids, asks, pair, side) ==
    IF side = "Bid" THEN bids[pair].orders ELSE asks[pair].orders

AllResting == UNION {bid_books[p].orders \cup ask_books[p].orders : p \in AllPairs}

\* The step is a process_order call (stid counts them).
IsProcessStep == stid' = stid + 1
Returned == last.op = "process_order"
Trades == last.changes.trades

\* C1: after any sequence of process_order calls on an engine whose initial
\* balances are non-negative, every balance entry has free >= 0 and
\* reserved >= 0.
C1_BalancesNonNegative ==
    \A k \in BalKeys : balances[k].free >= 0 /\ balances[k].reserved >= 0


\* C2: a successful process_order leaves, for every asset, the sum over all
\* accounts (the pot included) of free + reserved unchanged.
C2_SumConserved ==
    [][(IsProcessStep /\ last'.ok)
         => \A asset \in Assets : TotalOf(balances', asset) = TotalOf(balances, asset)]_vars


\* The engine state process_order may touch.
EngineState == <<trading_pairs, pricelevels, bid_books, ask_books, balances,
                 fee_structure>>

\* C3: whenever process_order returns an error, the books, the balances (the
\* set of existing balance entries included), the price levels and the fee
\* table are identical to their values before the call.
C3_ErrorLeavesStateUnchanged ==
    [][(IsProcessStep /\ ~last'.ok) => EngineState' = EngineState]_vars


\* Unfilled quantity of the Open orders resting at a price level.
RestingAt(k) ==
    {o \in BookOf(bid_books, ask_books, k[1], k[2]) :
        o.price = k[3] /\ o.status = "OPEN"}

RECURSIVE SumUnfilled(_)
SumUnfilled(orders) ==
    IF orders = {} THEN 0
    ELSE LET o == CHOOSE x \in orders : TRUE
         IN (o.qty - o.filled_quantity) + SumUnfilled(orders \ {o})

\* C4: after every process_order call, every stored price level equals the
\* sum of qty - filled_quantity over the Open orders resting in that pair's
\* book on that side at that price.
C4_PriceLevelIsSumOfResting ==
    Returned => \A k \in PLKeys :
                   pricelevels[k] # 0 => pricelevels[k] = SumUnfilled(RestingAt(k))


\* C5: no order stored in any bid or ask book has status Closed.
C5_NoClosedOrderInBook == \A o \in AllResting : o.status = "OPEN"

\* A maker was closed by a trade with a dust remainder and is in no book.
C5_Witness ==
    /\ Returned /\ last.ok
    /\ \E i \in 1..Len(Trades) :
          /\ Trades[i].maker.status = "CLOSED"
          /\ Trades[i].maker.qty > Trades[i].maker.filled_quantity
          /\ \A o \in AllResting : o.id # Trades[i].maker.id

\* C6: no Market order is stored in a book, and every Market order handed to
\* a successful process_order is Closed when the call returns.
C6_MarketOrderNeverRests ==
    /\ \A o \in AllResting : o.order_type = "LIMIT"
    /\ (Returned /\ last.ok /\ last.order.order_type = "MARKET")
          => last.changes.modified_orders[last.order.id].status = "CLOSED"

\* A Market order traded, was left partly unfilled, and rests nowhere.
C6_Witness ==
    /\ Returned /\ last.ok /\ last.order.order_type = "MARKET"
    /\ Len(Trades) > 0
    /\ LET done == last.changes.modified_orders[last.order.id]
       IN /\ done.qty > done.filled_quantity
          /\ done.status = "CLOSED"
          /\ \A o \in AllResting : o.id # done.id

\* The trades of the call just made, read in the state after it.
TradesAfter == last'.changes.trades

\* C7: every trade emitted by process_order has the price of its maker, the
\* order that rested in the book before the call.
C7_TradePriceIsMakerPrice ==
    [][IsProcessStep =>
         \A i \in 1..Len(TradesAfter) :
            LET tr == TradesAfter[i]
            IN /\ tr.price = tr.maker.price
               /\ \E o \in BookOf(bid_books, ask_books, tr.maker.pair, tr.maker.side) :
                     o.id = tr.maker.id /\ o.price = tr.price]_vars

\* A Limit taker traded at a price that is not its own.
C7_Witness ==
    /\ Returned /\ last.ok
    /\ \E i \in 1..Len(Trades) :
          /\ Trades[i].taker.order_type = "LIMIT"
          /\ Trades[i].taker.price # Trades[i].price
          /\ Trades[i].amount > 0

\* The book a taker is matched against, as it was before the call.
OppositeBefore(taker) ==
    BookOf(bid_books, ask_books, taker.pair,
           IF taker.side = "Bid" THEN "Ask" ELSE "Bid")

MatchedBefore(trades, i, o) == \E j \in 1..(i - 1) : trades[j].maker.id = o.id

\* C8: price priority: a trade's maker is the best-priced order left in the
\* opposite book (every strictly better-priced resting order was matched by
\* an earlier trade of the call), so trade prices are non-decreasing for a
\* Bid taker and non-increasing for an Ask taker.
C8_PricePriority ==
    [][IsProcessStep =>
         \A i \in 1..Len(TradesAfter) :
            LET tr == TradesAfter[i]
                bid == tr.taker.side = "Bid"
            IN /\ \A o \in OppositeBefore(tr.taker) :
                     (IF bid THEN o.price < tr.price ELSE o.price > tr.price)
                        => MatchedBefore(TradesAfter, i, o)
               /\ i > 1 => IF bid THEN TradesAfter[i - 1].price <= tr.price
                           ELSE TradesAfter[i - 1].price >= tr.price]_vars

\* One call traded against two makers at different prices.
C8_Witness ==
    /\ Returned /\ last.ok
    /\ Len(Trades) >= 2
    /\ Trades[1].price # Trades[2].price

C10_TradeAmountPositive ==
    Returned => \A i \in 1..Len(Trades) : Trades[i].amount > 0

\* A Market Bid given in quote: qty = 0 and a quote budget.
IsMarketBidInQuote(o) ==
    o.side = "Bid" /\ o.order_type = "MARKET" /\ o.qty = 0 /\ o.quote_order_qty > 0

\* C11: for a Market Bid taker given in quote, the amount of every trade
\* sized by the remaining quote budget (the maker was left with quantity to
\* spare) is an exact multiple of the pair's qty_step_size.
C11_QuoteTradeIsStepMultiple ==
    (Returned /\ last.ok) =>
       \A i \in 1..Len(Trades) :
          (/\ IsMarketBidInQuote(Trades[i].taker)
           /\ Trades[i].maker.filled_quantity < Trades[i].maker.qty)
             => Trades[i].amount % trading_pairs[Trades[i].taker.pair].qty_step_size = 0

\* The engine fields reserve_balances works on, before the call.
BeforeCall ==
    [pricelevels |-> pricelevels, bid_books |-> bid_books, ask_books |-> ask_books,
     balances |-> balances, changes |-> NewResult(stid + 1)]

ReserveError == "Error while reserving assets for order"

\* The reservation an order asks for: quote (qty - filled) x price for a Bid
\* Limit, base qty - filled for an Ask and for a Bid Market without quote
\* budget, quote quote_order_qty for a Bid Market with one.
ClaimedReservation(o) ==
    IF o.side = "Bid" /\ o.order_type = "LIMIT"
    THEN [asset |-> o.pair.quote,
          amount |-> rounding_off(Mul(o.qty - o.filled_quantity, o.price))]
    ELSE IF o.side = "Bid" /\ o.quote_order_qty > 0
    THEN [asset |-> o.pair.quote, amount |-> rounding_off(o.quote_order_qty)]
    ELSE [asset |-> o.pair.base, amount |-> rounding_off(o.qty - o.filled_quantity)]

\* What the reservation does given that it fails exactly when `fails` holds:
\* process_order returns the reservation error exactly then, and otherwise
\* the amount moves from free to reserved of the one entry and nothing else
\* changes (seen directly when the order rests without trading).
ReservationBehaves(o, k, amount, fails) ==
    LET res == reserve_balances(BeforeCall, o)
        moved == [balances EXCEPT ![k] = Balance(balances[k].free - amount,
                                                 balances[k].reserved + amount)]
    IN /\ (last'.err = ReserveError) <=> fails
       /\ res.ok <=> ~fails
       /\ ~fails => res.s.balances = moved
       /\ (last'.ok /\ last'.changes.trades = <<>> /\ o.order_type = "LIMIT")
             => balances' = moved

\* C12: process_order first reserves the claimed amount of the claimed asset
\* for the order's account; the reservation fails exactly when free < amount,
\* an account without a balance entry counting as free = 0, and otherwise
\* decreases free and increases reserved by exactly that amount.
C12_Reservation ==
    [][(IsProcessStep /\ trading_pairs[last'.order.pair].present) =>
         LET o == last'.order
             c == ClaimedReservation(o)
             k == <<o.main_account, c.asset>>
         IN ReservationBehaves(o, k, c.amount,
               (IF balances[k].present THEN balances[k].free ELSE 0) < c.amount)]_vars

\* C12 as amended: the reservation fails exactly when the account has no
\* balance entry for the asset or free < amount.
C12_ReservationNeedsEntry ==
    [][(IsProcessStep /\ trading_pairs[last'.order.pair].present) =>
         LET o == last'.order
             c == ClaimedReservation(o)
             k == <<o.main_account, c.asset>>
         IN ReservationBehaves(o, k, c.amount,
               ~balances[k].present \/ balances[k].free < c.amount)]_vars

\* A reservation of nothing was refused: the account had no entry.
C12_Witness ==
    /\ Returned /\ last.err = ReserveError
    /\ ClaimedReservation(last.order).amount = 0

\* The taker of the call just made, as the delta records it at return.
TakerAfter == last'.changes.modified_orders[last'.order.id]

\* The call just made was a Bid Limit taker that traded below its limit price.
OverpaidAfter ==
    /\ IsProcessStep /\ last'.ok
    /\ last'.order.side = "Bid" /\ last'.order.order_type = "LIMIT"
    /\ \E i \in 1..Len(TradesAfter) : TradesAfter[i].price < last'.order.price

\* Quote reserved for the taker's account by the call just made.
ReservedByCall ==
    balances'[<<last'.order.main_account, last'.order.pair.quote>>].reserved
      - (IF balances[<<last'.order.main_account, last'.order.pair.quote>>].present
         THEN balances[<<last'.order.main_account, last'.order.pair.quote>>].reserved
         ELSE 0)

\* What the residual of an order is worth at its own price, exactly and as
\* rounding_off keeps it.
ResidualQuote(o) ==
    {Mul(o.qty - o.filled_quantity, o.price),
     rounding_off(Mul(o.qty - o.filled_quantity, o.price))}

\* C13: when a Bid Limit taker trades below its limit price, the overpaid
\* part of its reservation is returned to free, so that at return the quote
\* reserved for the order is (qty - filled) x taker.price of the residual that
\* rests in the book (nothing when no residual rests).
C13_OverpayRefund ==
    [][OverpaidAfter =>
         IF TakerAfter.status = "OPEN"
         THEN ReservedByCall \in ResidualQuote(TakerAfter)
         ELSE ReservedByCall = 0]_vars

\* The call just made was `order`, right after `before` had been processed
\* successfully as the first order.
CrossedAfter(before, order) ==
    /\ IsProcessStep
    /\ last.op = "process_order" /\ last.ok /\ last.order = before
    /\ last'.order = order

S2Ask == NewOrder(1, "A", Pair1, "Ask", "LIMIT", S2AskPrice, S2AskQty, 0)
S2Bid == NewOrder(2, "B", Pair1, "Bid", "LIMIT", S2BidPrice, S2BidQty, 0)

\* The state scenario S2 starts from: zero fees, B holds 100 quote and
\* nothing else, the book holds only A's Ask.
S2Start ==
    /\ fee_structure["A"] = ZeroFee /\ fee_structure["B"] = ZeroFee
    /\ balances[<<"B", QuoteAsset>>] = Balance(S2Funds, 0)
    /\ ~balances[<<"B", BaseAsset>>].present
    /\ ~balances[<<"A", QuoteAsset>>].present

\* What scenario S2 leaves with `reserved` and `free` as B's quote balance.
S2Outcome(free, reserved) ==
    /\ last'.ok
    /\ Len(TradesAfter) = 1
    /\ TradesAfter[1].amount = S2AskQty /\ TradesAfter[1].price = S2AskPrice
    /\ balances'[<<"B", QuoteAsset>>] = Balance(free, reserved)
    /\ balances'[<<"B", BaseAsset>>].free = S2AskQty
    /\ balances'[<<"A", QuoteAsset>>].free = 10 * One
    /\ \E o \in bid_books'[Pair1].orders :
          /\ bid_books'[Pair1].orders = {o}
          /\ o.id = S2Bid.id /\ o.qty - o.filled_quantity = 10 * One

\* C14: scenario S2: with zero fees, A's resting Ask Limit (1.0, qty 10)
\* crossed by B's Bid Limit (2.0, qty 20, B holding 100 quote) gives one trade
\* of 10 at 1.0, B's quote 80 free and 10 reserved, B's base free 10, A's
\* quote free 10, and the residual of 10 resting in the Bid book.
C14_ScenarioS2 ==
    [][(S2Start /\ CrossedAfter(S2Ask, S2Bid)) => S2Outcome(80 * One, 10 * One)]_vars

\* C14 as amended: B's quote is 70 free and 20 reserved.
C14_ScenarioS2Reserved20 ==
    [][(S2Start /\ CrossedAfter(S2Ask, S2Bid)) => S2Outcome(70 * One, 20 * One)]_vars

\* Scenario S2 has run: B's Bid crossed A's Ask and its residual rests.
C14_Witness ==
    /\ Returned /\ last.ok /\ last.order = S2Bid
    /\ fee_structure["B"] = ZeroFee
    /\ Len(Trades) = 1 /\ Trades[1].maker.id = S2Ask.id
    /\ Trades[1].maker.main_account = "A"
    /\ balances[<<"B", BaseAsset>>] = Balance(S2AskQty, 0)

\* C15: after process_order returns for a Market order, nothing of its
\* reservation remains reserved: the taker's reserved balance in every asset
\* is what it was before the call; a market bid that meets an empty book
\* leaves the taker's balances as they were and produces no trade.
C15_MarketReservationReleased ==
    [][(IsProcessStep /\ last'.ok /\ last'.order.order_type = "MARKET") =>
         LET main == last'.order.main_account
             empty == ask_books[last'.order.pair].orders = {}
         IN /\ \A asset \in Assets :
                  balances'[<<main, asset>>].reserved = balances[<<main, asset>>].reserved
            /\ (last'.order.side = "Bid" /\ empty) =>
                  /\ TradesAfter = <<>>
                  /\ \A asset \in Assets :
                        balances'[<<main, asset>>] = balances[<<main, asset>>]]_vars

\* The result process_order(order) has on the engine load() builds from the
\* snapshot of the current state.
AfterLoad(order) ==
    LET e == load(trading_pairs, bid_books, ask_books, balances, fee_structure)
    IN process_order([trading_pairs |-> e.trading_pairs,
                      pricelevels |-> e.pricelevels, bid_books |-> e.bid_books,
                      ask_books |-> e.ask_books, balances |-> e.balances],
                     e.fee_structure, order, stid + 1)

\* C16: for any reached state and any next order, the engine built by load()
\* from the state's snapshot returns the same result as the original engine:
\* the same error, or a delta with the same balances, price levels, modified
\* orders and trades.
C16_LoadRoundTrip ==
    [][IsProcessStep =>
         LET r == AfterLoad(last'.order)
         IN /\ r.ok = last'.ok
            /\ r.err = last'.err
            /\ r.ok => r.s.changes = last'.changes]_vars

\* C18: the delta of a successful process_order is a complete post-state
\* record: every balance and every price level in the delta is the engine's
\* value at return (0 for an absent level), and every balance entry or price
\* level the call changed is a key of the delta.
C18_DeltaIsPostState ==
    [][(IsProcessStep /\ last'.ok) =>
         LET delta == last'.changes
         IN /\ \A k \in DOMAIN delta.balances : delta.balances[k] = balances'[k]
            /\ \A k \in DOMAIN delta.pricelevels : delta.pricelevels[k] = pricelevels'[k]
            /\ \A k \in BalKeys :
                  balances'[k] # balances[k] => k \in DOMAIN delta.balances
            /\ \A k \in PLKeys :
                  pricelevels'[k] # pricelevels[k] => k \in DOMAIN delta.pricelevels]_vars

\* A call that traded, moved balances and changed a price level.
C18_Witness ==
    /\ Returned
    /\ Trades # <<>>
    /\ DOMAIN last.changes.balances # {}
    /\ \E k \in DOMAIN last.changes.pricelevels : last.changes.pricelevels[k] # 0

\* The fee a taker with no fee entry pays on the single trade of its call.
DefaultTakerFee(trade) ==
    LET flow == calculate_assets_flows_from_trade(trade.price, trade.taker.side,
                                                  trade.taker.pair, trade.amount)
        fraction == IF trade.taker.main_account = trade.maker.main_account
                    THEN DefaultFee.maker_fraction
                    ELSE DefaultFee.taker_fraction
    IN rounding_off(Mul(flow.recv_amt, fraction))

\* C19: update_fee_structure is an idempotent upsert: called again with the
\* same account and fractions it leaves the fee table as the first call left
\* it and returns the same record, and it changes no other account's entry;
\* an account with no entry is charged the default fractions.
C19_FeeUpsertIdempotent ==
    [][/\ last'.op = "update_fee_structure" =>
            LET c == last'.fee_call
                again == update_fee_structure(fee_structure', c.main,
                                              c.maker_fraction, c.taker_fraction)
            IN /\ again.fee_structure = fee_structure'
               /\ again.fee = last'.fee
               /\ last'.fee = [present |-> TRUE,
                               maker_fraction |-> c.maker_fraction,
                               taker_fraction |-> c.taker_fraction]
               /\ fee_structure'[c.main] = last'.fee
               /\ \A a \in AllAccounts \ {c.main} :
                     fee_structure'[a] = fee_structure[a]
       /\ (/\ IsProcessStep /\ last'.ok
           /\ Len(TradesAfter) = 1
           /\ ~fee_structure[last'.order.main_account].present) =>
            last'.changes.modified_orders[last'.order.id].fee
               = DefaultTakerFee(TradesAfter[1])]_vars

\* update_fee_structure has just set A's fractions while B has an entry of
\* its own and orders have been processed.
C19_Witness ==
    /\ last.op = "update_fee_structure"
    /\ last.fee_call.main = "A"
    /\ fee_structure["B"].present
    /\ fee_structure["B"] # fee_structure["A"]
    /\ stid > 0

S3Bid == NewOrder(1, "A", Pair1, "Bid", "LIMIT", S3Price, S3BidQty, 0)
S3Ask == NewOrder(2, "B", Pair1, "Ask", "LIMIT", S3Price, S3AskQty, 0)

\* The state scenario S3 starts from: default fees, B holds S3Funds of the
\* base asset, the book holds only A's Bid.
S3Start ==
    /\ \A a \in Accounts : ~fee_structure[a].present
    /\ balances[<<"B", BaseAsset>>] = Balance(S3Funds, 0)
    /\ balances[<<"B", QuoteAsset>>] = Balance(S2Funds, 0)

\* C20: scenario S3 (precision): A's resting Bid Limit crossed by B's Ask
\* Limit at the same price, B holding S3Funds of the asset it sells, gives
\* exactly one trade and leaves B's free balance of that asset at exactly
\* S3Funds - S3AskQty: rounding toward zero in reservation and settlement
\* introduces no drift.
C20_ScenarioS3 ==
    [][(S3Start /\ CrossedAfter(S3Bid, S3Ask)) =>
         /\ last'.ok
         /\ Len(TradesAfter) = 1
         /\ balances'[<<"B", BaseAsset>>].free = S3Funds - S3AskQty]_vars

\* Scenario S3 has run: B's Ask was filled by A's Bid under default fees.
C20_Witness ==
    /\ Returned /\ last.ok /\ last.order = S3Ask
    /\ ~fee_structure["B"].present
    /\ Len(Trades) = 1 /\ Trades[1].maker.id = S3Bid.id
    /\ Trades[1].maker.main_account = "A"
    /\ Trades[1].amount = S3AskQty
    /\ balances[<<"B", QuoteAsset>>].free > S2Funds

\* B's market bid of S4 is the first call after the asks were placed.
S4Bid == NewOrder(1, "B", Pair1, "Bid", "MARKET", 0, 0, S4Budget)

\* The quantity the budget left after the first ask buys at the second price,
\* brought down to a multiple of the step.
S4Quantized ==
    LET step == S4Config.qty_step_size
    IN (Div(S4Budget - Mul(One, S4Qty), One + R) \div step) * step

\* C21: scenario S4: the market bid in quote gives exactly two trades, the
\* first ask in full at its price and the quantity the remaining budget buys
\* at the second price, quantized to the step; it then stops, the order is
\* Closed and nothing of its quote stays reserved.
C21_ScenarioS4 ==
    [][(stid = 0 /\ IsProcessStep /\ last'.order = S4Bid) =>
         /\ last'.ok
         /\ Len(TradesAfter) = 2
         /\ TradesAfter[1].amount = S4Qty /\ TradesAfter[1].price = One
         /\ TradesAfter[2].amount = S4Quantized /\ TradesAfter[2].price = One + R
         /\ TakerAfter.status = "CLOSED"
         /\ balances'[<<"B", QuoteAsset>>].reserved = 0]_vars

\* C22: the configuration of a registered pair never changes: no later
\* add_trading_pair, update_fee_structure or process_order call changes what
\* get_pair_config returns for it.
C22_PairConfigImmutable ==
    [][\A p \in AllPairs :
          trading_pairs[p].present => trading_pairs'[p] = trading_pairs[p]]_vars

\* C23: after every process_order call every entry of the price-level map
\* has a quantity above 0 and a volume price x quantity of at least the pair's
\* min_volume; a level that is below min_volume is absent from the map and is
\* 0 in the delta.
C23_LevelsAboveMinVolume ==
    Returned =>
       /\ \A k \in DOMAIN pricelevels :
             pricelevels[k] # 0 =>
                /\ pricelevels[k] > 0
                /\ Mul(k[3], pricelevels[k]) >= trading_pairs[k[1]].min_volume
       /\ last.ok =>
             \A k \in DOMAIN last.changes.pricelevels :
                Mul(k[3], pricelevels[k]) < trading_pairs[k[1]].min_volume
                   => pricelevels[k] = 0 /\ last.changes.pricelevels[k] = 0

\* The trade left its maker, a Limit order, with less than min_volume.
DustMaker(trade) ==
    /\ trade.maker.order_type = "LIMIT"
    /\ available_volume(trade.maker, NoPrice)
          < trading_pairs[trade.maker.pair].min_volume

\* The orders of an account resting on one side of a pair after the call.
RestingAfterOf(main, pair, side) ==
    {o \in BookOf(bid_books', ask_books', pair, side) : o.main_account = main}

\* C24: dust close: when a trade leaves a resting Limit maker with less than
\* min_volume, the maker is no longer in the book, its snapshot in the trade
\* and in modified_orders is Closed, and what was still reserved for it is
\* released in the same call: if no other order of its account rests on its
\* side, the account has nothing reserved in the asset the maker gave away.
C24_DustClose ==
    [][(IsProcessStep /\ last'.ok) =>
         \A i \in 1..Len(TradesAfter) :
            LET m == TradesAfter[i].maker
                asset == IF m.side = "Ask" THEN m.pair.base ELSE m.pair.quote
            IN DustMaker(TradesAfter[i]) =>
                 /\ \A o \in BookOf(bid_books', ask_books', m.pair, m.side) :
                       o.id # m.id
                 /\ m.status = "CLOSED"
                 /\ last'.changes.modified_orders[m.id].status = "CLOSED"
                 /\ (/\ RestingAfterOf(m.main_account, m.pair, m.side) = {}
                     /\ m.main_account # last'.order.main_account)
                      => balances'[<<m.main_account, asset>>].reserved = 0]_vars

\* The fee receipt of one half of a trade: order is the trade's maker or taker.
ReceiptOf(order, trade) ==
    LET flow == calculate_assets_flows_from_trade(trade.price, order.side,
                                                  order.pair, trade.amount)
    IN settle_trade_fees(fee_structure, order.main_account,
                         order.main_account = trade.maker.main_account,
                         flow.recv_amt, flow.receiving_asset).receipt.amt

\* The receipts the trades from the i-th on charge to the order `id`.
RECURSIVE FeesCharged(_, _, _)
FeesCharged(trades, i, id) ==
    IF i > Len(trades) THEN 0
    ELSE (IF trades[i].maker.id = id THEN ReceiptOf(trades[i].maker, trades[i]) ELSE 0)
         + (IF trades[i].taker.id = id THEN ReceiptOf(trades[i].taker, trades[i]) ELSE 0)
         + FeesCharged(trades, i + 1, id)

\* The fee an order of the delta carried when the call started.
FeeBefore(id) ==
    IF id = last'.order.id THEN last'.order.fee
    ELSE LET o == CHOOSE x \in OppositeBefore(last'.order) : x.id = id IN o.fee

\* C25: the fee of an order is cumulative: after a successful process_order
\* the fee of the taker and of every maker in modified_orders, and of the
\* book copy of an order that still rests, is its fee before the call plus
\* the fee receipts the trades of the call charged to it.
C25_FeeIsCumulative ==
    [][(IsProcessStep /\ last'.ok) =>
         \A id \in DOMAIN last'.changes.modified_orders :
            LET fee == FeeBefore(id) + FeesCharged(TradesAfter, 1, id)
            IN /\ last'.changes.modified_orders[id].fee = fee
               /\ \A p \in AllPairs :
                     \A o \in bid_books'[p].orders \cup ask_books'[p].orders :
                        o.id = id => o.fee = fee]_vars

\* C26: process_order emits at most as many trades as there were orders
\* resting in the opposite book of the pair when the call started: each
\* resting order is the maker of at most one trade of the call.
C26_TradesBoundedByBook ==
    [][IsProcessStep =>
         /\ Len(TradesAfter) <= Cardinality(OppositeBefore(last'.order))
         /\ \A i, j \in 1..Len(TradesAfter) :
               i # j => TradesAfter[i].maker.id # TradesAfter[j].maker.id]_vars

\* The book a taker was matched against, as it is after the call.
OppositeAfter(taker) ==
    BookOf(bid_books', ask_books', taker.pair,
           IF taker.side = "Bid" THEN "Ask" ELSE "Bid")

\* The resting order's price is worse than the Limit taker's limit.
BeyondLimit(taker, o) ==
    IF taker.side = "Bid" THEN o.price > taker.price ELSE o.price < taker.price

\* C27: limit-price protection: no trade of a Bid Limit taker is above its
\* price and no trade of an Ask Limit taker is below its price; the resting
\* orders beyond the limit are not matched and stay in the book unchanged.
C27_LimitPriceProtection ==
    [][(IsProcessStep /\ last'.order.order_type = "LIMIT") =>
         /\ \A i \in 1..Len(TradesAfter) :
               /\ ~BeyondLimit(last'.order, TradesAfter[i].maker)
               /\ IF last'.order.side = "Bid"
                  THEN TradesAfter[i].price <= last'.order.price
                  ELSE TradesAfter[i].price >= last'.order.price
         /\ \A o \in OppositeBefore(last'.order) :
               BeyondLimit(last'.order, o) => o \in OppositeAfter(last'.order)]_vars

\* A Limit taker has traded while an order beyond its limit rests untouched.
C27_Witness ==
    /\ Returned /\ last.ok /\ last.order.order_type = "LIMIT"
    /\ Trades # <<>>
    /\ \E o \in BookOf(bid_books, ask_books, last.order.pair,
                       IF last.order.side = "Bid" THEN "Ask" ELSE "Bid") :
          /\ BeyondLimit(last.order, o)
          /\ o.filled_quantity = 0

\* C28: books are never crossed between calls: after every process_order
\* call, when both books of a pair hold orders, every resting bid is priced
\* strictly below every resting ask.
C28_BooksNeverCrossed ==
    Returned =>
       \A p \in AllPairs :
          \A b \in bid_books[p].orders, a \in ask_books[p].orders : b.price < a.price

\* The residual of a Limit order that traded rests opposite a non-empty book.
C28_Witness ==
    /\ Returned /\ last.ok /\ last.order.order_type = "LIMIT"
    /\ Trades # <<>>
    /\ \E o \in BookOf(bid_books, ask_books, last.order.pair, last.order.side) :
          o.id = last.order.id
    /\ BookOf(bid_books, ask_books, last.order.pair,
              IF last.order.side = "Bid" THEN "Ask" ELSE "Bid") # {}

\* What the Open orders of an account resting in the books keep reserved of
\* an asset: qty - filled of its Asks (base), (qty - filled) x price of its
\* Bids (quote).
RECURSIVE ReservedFor(_, _)
ReservedFor(orders, asset) ==
    IF orders = {} THEN 0
    ELSE LET o == CHOOSE x \in orders : TRUE
             own == IF o.side = "Ask" /\ asset = o.pair.base
                    THEN o.qty - o.filled_quantity
                    ELSE IF o.side = "Bid" /\ asset = o.pair.quote
                    THEN Mul(o.qty - o.filled_quantity, o.price)
                    ELSE 0
         IN own + ReservedFor(orders \ {o}, asset)

\* C29: reservations track resting orders: after every process_order call the
\* reserved balance of each account and asset is the sum of what its Open
\* resting orders keep reserved, so that an order that ended the call Closed
\* leaves nothing reserved.
C29_ReservedTracksResting ==
    Returned =>
       \A k \in BalKeys :
          balances[k].reserved
             = ReservedFor({o \in AllResting :
                              o.main_account = k[1] /\ o.status = "OPEN"}, k[2])

\* The fee of one half of a trade at the fraction its role calls for: the
\* maker_fraction of the maker's account, the taker_fraction of the taker's.
RoleFee(order, trade, is_maker) ==
    LET flow == calculate_assets_flows_from_trade(trade.price, order.side,
                                                  order.pair, trade.amount)
        fs == fee_structure[order.main_account]
    IN rounding_off(Mul(flow.recv_amt,
                        IF is_maker THEN fs.maker_fraction ELSE fs.taker_fraction))

\* C30: in every trade the resting order is charged its account's
\* maker_fraction and the incoming order its account's taker_fraction, also
\* when both orders belong to one account (stated on calls with one trade,
\* where the fee recorded for an order is what that trade charged it).
C30_FeeByRole ==
    [][(IsProcessStep /\ last'.ok /\ Len(TradesAfter) = 1) =>
         LET trade == TradesAfter[1]
         IN /\ last'.changes.modified_orders[trade.taker.id].fee
                 = FeeBefore(trade.taker.id) + RoleFee(trade.taker, trade, FALSE)
            /\ last'.changes.modified_orders[trade.maker.id].fee
                 = FeeBefore(trade.maker.id) + RoleFee(trade.maker, trade, TRUE)]_vars

\* The order is the maker of one of the trades of the call that just returned.
MakerIn(trades, o) == \E i \in 1..Len(trades) : trades[i].maker.id = o.id

\* C31: an order resting in a book stays there, unaltered, across every
\* add_trading_pair, update_fee_structure and process_order call, except a
\* process_order call in which it is the maker of a trade.
C31_RestingOrdersStay ==
    [][\A o \in AllResting :
          \/ o \in AllResting'
          \/ IsProcessStep /\ MakerIn(TradesAfter, o)]_vars

\* The accounts a process_order call may touch: the taker's, those of the makers
\* in the trades it emitted, and the pot.
Involved(order, trades) ==
    {order.main_account, Pot} \cup {trades[i].maker.main_account : i \in 1..Len(trades)}

\* C32: a process_order call for an order on pair P leaves the books and price
\* levels of every other pair, the fee table and the pair configs unchanged,
\* and leaves unchanged the balances of every account that is neither the
\* taker's, nor a maker's in an emitted trade, nor the pot.
C32_ProcessOrderFrame ==
    [][IsProcessStep =>
         /\ \A p \in (DOMAIN bid_books) \ {last'.order.pair} :
               bid_books'[p] = bid_books[p] /\ ask_books'[p] = ask_books[p]
         /\ \A k \in DOMAIN pricelevels :
               k[1] # last'.order.pair => pricelevels'[k] = pricelevels[k]
         /\ fee_structure' = fee_structure
         /\ trading_pairs' = trading_pairs
         /\ \A k \in DOMAIN balances :
               k[1] \notin Involved(last'.order, TradesAfter)
                   => balances'[k] = balances[k]]_vars

\* A call that traded on one pair while an order rests on the other pair and
\* an account with balances took no part in the trade.
C32_Witness ==
    /\ Returned /\ last.ok /\ Len(Trades) >= 1
    /\ \E p \in (DOMAIN bid_books) \ {last.order.pair} :
          bid_books[p].orders \cup ask_books[p].orders # {}
    /\ \E k \in DOMAIN balances :
          k[1] \notin Involved(last.order, Trades) /\ balances[k].present

====
